---- MODULE Spec2Model ----
(***************************************************************************)
(* A model of xmitgcm/to_netcdf.py: the grid extractor (_extract_grid),    *)
(* the per-timestep variable extractor (_extract_var), the aggregator      *)
(* (_concatenate) and the pipeline (mds_to_netcdf), over a filesystem of   *)
(* directories and files.                                                  *)
(*                                                                         *)
(* A timestamp is a record [y, m, d, h, mi]; a dataset is the sequence of  *)
(* its time records.  A path is [dir, name]: dir is a directory            *)
(* [top, y, m] under the output root (top = "grid", a variable name, or    *)
(* the directory handed to the aggregator; y, m = 0 when that level is     *)
(* absent) and name is the formatted file name, kept as the values the     *)
(* format string prints.  A file's content is [recs, by, complete]: the    *)
(* records it holds, the run that wrote it (0: before the first run) and   *)
(* whether the write finished.                                             *)
(***************************************************************************)
EXTENDS Integers, Sequences, FiniteSets, TLC

VARIABLES
    ds, vars, prefix, concatenate, overwrite, extract_grid,  \* arguments
    fs, dirs,                                                \* filesystem
    pc, run, vi, t, month, pending, cur, err,                \* control
    fs0, fsEnd1, end1, written, calls, aggIn, aggW, gridDone \* history

allVars == <<ds, vars, prefix, concatenate, overwrite, extract_grid,
             fs, dirs, pc, run, vi, t, month, pending, cur, err,
             fs0, fsEnd1, end1, written, calls, aggIn, aggW, gridDone>>

args == <<ds, vars, prefix, concatenate, overwrite, extract_grid>>

(***************************************************************************)
(* Bounds of the model                                                     *)
(***************************************************************************)
MaxT == 2        \* timesteps of a dataset handed to the pipeline
MaxV == 2        \* requested variables
MaxRecs == 3     \* records of a dataset handed directly to the aggregator

\* range(1, 13) of the month loop
LastMonth == 12

Years == {1948, 1949}
Months == {1, 2}
Days == {1, 2}
Hours == {0, 12}
Minutes == {0, 30}

Stamp(y, m, d, h, mi) == [y |-> y, m |-> m, d |-> d, h |-> h, mi |-> mi]

\* timestamps of the datasets handed to the aggregator
AggStamps == {Stamp(y, m, d, h, 0) : y \in Years, m \in Months, d \in Days, h \in Hours}

\* timestamps of the datasets handed to the pipeline
PipeStamps == {Stamp(1948, m, 1, 12, mi) : m \in Months, mi \in Minutes}

\* data variables of the dataset, and the names a caller may request
DataVars == {"Eta", "U"}
VarNames == DataVars \cup {"W"}

\* prefixes; "m02x" is one whose text holds the month tag "m02"
Prefixes == {"llc", "m02x"}
OtherPrefix == "old"

\* the months mm whose tag "m%02i" occurs as a substring of the text s
MonthTags(s) == IF s = "m02x" THEN {2} ELSE {}

\* a mode argument: the text, and whether it is the very string object of the
\* literals the code compares against with `is`
Mode(name, same) == [name |-> name, same |-> same]
None == Mode("none", TRUE)
ModeNames == {"yearly", "monthly", "daily"}
Modes == {Mode(n, s) : n \in ModeNames, s \in BOOLEAN}
             \cup {Mode("weekly", FALSE), Mode("hourly", FALSE)}

(***************************************************************************)
(* Helpers                                                                 *)
(***************************************************************************)
Range(s) == {s[i] : i \in 1..Len(s)}

RECURSIVE Sorted(_)
\* the values of a set of integers in ascending order (groupby yields sorted keys)
Sorted(S) ==
    IF S = {} THEN <<>>
    ELSE LET x == CHOOSE x \in S : \A y \in S : x <= y
         IN  <<x>> \o Sorted(S \ {x})

RECURSIVE Flatten(_)
Flatten(ss) == IF ss = <<>> THEN <<>> ELSE Head(ss) \o Flatten(Tail(ss))

\* a timestamp sequence in ascending time order
Key(s) == ((((s.y * 13 + s.m) * 32 + s.d) * 24 + s.h) * 60) + s.mi
Ascending(s) == \A i \in 1..Len(s) - 1 : Key(s[i]) < Key(s[i + 1])

(***************************************************************************)
(* Paths                                                                   *)
(***************************************************************************)
Dir(top, y, m) == [top |-> top, y |-> y, m |-> m]
Name(kind, p, v, y, m, d, h) ==
    [kind |-> kind, prefix |-> p, var |-> v, y |-> y, m |-> m, d |-> d, h |-> h]
Path(dir, name) == [dir |-> dir, name |-> name]

\* grid_dir + '/%s_grid.nc' % prefix
GridDir == Dir("grid", 0, 0)
GridPath(p) == Path(GridDir, Name("grid", p, "", 0, 0, 0, 0))

\* var_dir + '/%s_%s_y%02i_m%02i_d%02i_h%02i.nc'
VarDir(v) == Dir(v, 0, 0)
StepPath(p, v, s) == Path(VarDir(v), Name("step", p, v, s.y, s.m, s.d, s.h))

Content(recs, by, complete) == [recs |-> recs, by |-> by, complete |-> complete]

IsFile(f, path) == path \in DOMAIN f
Put(f, path, c) == (path :> c) @@ f

(***************************************************************************)
(* _concatenate: the aggregator                                            *)
(***************************************************************************)
\* `mode is 'yearly'`: identity of string objects, not equality of text
Is(mode, literal) == mode.name = literal /\ mode.same

\* the items of ds.groupby('time.<field>'): the sorted keys
GroupKeys(recs, field) == Sorted({r[field] : r \in recs})
Group(recs, field, key) == {r \in recs : r[field] = key}

\* one step of the aggregator's loops: the directories made so far in the
\* enclosing groups, then either a write of recs to path or the raise
Item(mk, path, recs, raise) == [mk |-> mk, path |-> path, recs |-> recs, raise |-> raise]

YearlyPath(output_dir, p, var, year) ==
    Path(output_dir, Name("yearly", p, var, year, 0, 0, 0))
MonthlyPath(output_dir, p, var, year, mm) ==
    Path(Dir(output_dir.top, year, 0), Name("monthly", p, var, year, mm, 0, 0))
DailyPath(output_dir, p, var, year, mm, day) ==
    Path(Dir(output_dir.top, year, mm), Name("daily", p, var, year, mm, day, 0))

\* the body of the day loop, for each day of ds_monthly
DayItems(ds_monthly, var, output_dir, p, year, mm) ==
    LET days == GroupKeys(ds_monthly, "d")
        yearly_dir == Dir(output_dir.top, year, 0)
        monthly_dir == Dir(output_dir.top, year, mm)
    IN  [i \in 1..Len(days) |->
            Item({yearly_dir, monthly_dir},
                 DailyPath(output_dir, p, var, year, mm, days[i]),
                 Group(ds_monthly, "d", days[i]), FALSE)]

\* the month loop with `else:` in place of `elif mode is 'daily':`
MonthItems_ElseDaily(ds_monthly, var, mode, output_dir, p, year, mm) ==
    LET yearly_dir == Dir(output_dir.top, year, 0)
    IN  IF Is(mode, "monthly")
        THEN <<Item({yearly_dir}, MonthlyPath(output_dir, p, var, year, mm),
                    ds_monthly, FALSE)>>
        ELSE DayItems(ds_monthly, var, output_dir, p, year, mm)

\* the body of the month loop, for one month of ds_yearly
MonthItems(ds_monthly, var, mode, output_dir, p, year, mm) ==
    LET yearly_dir == Dir(output_dir.top, year, 0)
    IN  IF Is(mode, "monthly")
        THEN <<Item({yearly_dir}, MonthlyPath(output_dir, p, var, year, mm),
                    ds_monthly, FALSE)>>
        ELSE IF Is(mode, "daily")
        THEN DayItems(ds_monthly, var, output_dir, p, year, mm)
        ELSE <<Item({yearly_dir}, YearlyPath(output_dir, p, var, year), {}, TRUE)>>

\* the body of the year loop, for one year of ds
YearItems(ds_yearly, var, mode, output_dir, p, year) ==
    IF Is(mode, "yearly")
    THEN <<Item({}, YearlyPath(output_dir, p, var, year), ds_yearly, FALSE)>>
    ELSE LET months == GroupKeys(ds_yearly, "m")
         IN  Flatten([i \in 1..Len(months) |->
                 MonthItems(Group(ds_yearly, "m", months[i]), var, mode,
                            output_dir, p, year, months[i])])

RECURSIVE UntilRaise(_)
\* the steps the loops reach: those up to and including the first raise
UntilRaise(items) ==
    IF items = <<>> THEN <<>>
    ELSE IF Head(items).raise THEN <<Head(items)>>
    ELSE <<Head(items)>> \o UntilRaise(Tail(items))

\* the steps of _concatenate(ds, var, mode, output_dir, prefix) in order
ConcatItems(recs, var, mode, output_dir, p) ==
    LET years == GroupKeys(recs, "y")
    IN  UntilRaise(Flatten([i \in 1..Len(years) |->
            YearItems(Group(recs, "y", years[i]), var, mode, output_dir, p, years[i])]))

\* one step applied to the filesystem st = [fs, dirs, err, written]:
\* mkdir if not isdir; raise; or write unless isfile and not overwrite
ApplyItem(st, item, ow, by) ==
    IF item.raise
    THEN [st EXCEPT !.dirs = @ \cup item.mk, !.err = "ValueError"]
    ELSE IF IsFile(st.fs, item.path) /\ ~ow
    THEN [st EXCEPT !.dirs = @ \cup item.mk]
    ELSE [st EXCEPT !.dirs = @ \cup item.mk,
                    !.fs = Put(@, item.path, Content(item.recs, by, TRUE)),
                    !.written = @ \cup {item.path}]

RECURSIVE ApplyItems(_, _, _, _)
ApplyItems(st, items, ow, by) ==
    IF items = <<>> THEN st
    ELSE ApplyItems(ApplyItem(st, Head(items), ow, by), Tail(items), ow, by)

\* a whole call of _concatenate on the filesystem (f, dd)
Concatenate(f, dd, recs, var, mode, output_dir, p, ow, by) ==
    ApplyItems([fs |-> f, dirs |-> dd, err |-> "", written |-> {}],
               ConcatItems(recs, var, mode, output_dir, p), ow, by)

(***************************************************************************)
(* mds_to_netcdf: the pipeline, one step per call or loop iteration; a     *)
(* to_netcdf write is two steps (the file is created at its final path,    *)
(* then filled), the rest of a call is one step.                           *)
(***************************************************************************)
\* the overwrite argument each stage is called with
GridOverwrite(ow) == FALSE

\* _extract_var called with overwrite=True
VarOverwrite_Always(ow) == TRUE

\* _extract_var called with overwrite=overwrite
VarOverwrite_Passed(ow) == ow

VarOverwrite(ow) == FALSE
AggOverwrite(ow) == ow

\* `concatenate in ['monthly', 'daily']`: equality of text
Dispatched(mode) == mode.name \in {"monthly", "daily"}

\* '*m%02i*.nc' against a file name: the tag occurs somewhere in its text
Matches(name, mm) ==
    mm \in MonthTags(name.prefix) \cup MonthTags(name.var)
           \cup (IF name.kind \in {"step", "monthly", "daily"} THEN {name.m} ELSE {})

\* glob of output_dir + '/%s/*m%02i*.nc' % (var, month)
Glob(f, var, mm) == {q \in DOMAIN f : q.dir = VarDir(var) /\ Matches(q.name, mm)}

\* the records of open_mfdataset(files, concat_dim='time')
Joined(f, files) == UNION {f[q].recs : q \in files}

Pos(p, i, j, mm) == [pc |-> p, vi |-> i, t |-> j, month |-> mm]

RECURSIVE StartVar(_, _, _)
\* where control is when the loop over vars reaches position i
StartVar(i, vs, d) ==
    IF i > Len(vs) THEN Pos("done", i, 1, 1)
    ELSE IF Len(d) > 0 THEN Pos("var", i, 1, 1)
    ELSE IF Dispatched(concatenate) THEN Pos("agg", i, 1, 1)
    ELSE StartVar(i + 1, vs, d)

\* the concatenation indented into the loop over time indices
AfterStep_Early(i, j) ==
    IF Dispatched(concatenate) THEN Pos("agg", i, 1, 1)
    ELSE IF j < Len(ds) THEN Pos("var", i, j + 1, 1)
    ELSE StartVar(i + 1, vars, ds)

\* where control is after the call for time index j of variable i
AfterStep(i, j) ==
    IF j < Len(ds) THEN Pos("var", i, j + 1, 1)
    ELSE IF Dispatched(concatenate) THEN Pos("agg", i, 1, 1)
    ELSE StartVar(i + 1, vars, ds)

\* where control is after the iteration for month mm of variable i
AfterMonth(i, mm) ==
    IF mm < LastMonth THEN Pos("agg", i, 1, mm + 1)
    ELSE StartVar(i + 1, vars, ds)

Goto(pos) ==
    /\ pc' = pos.pc
    /\ vi' = pos.vi
    /\ t' = pos.t
    /\ month' = pos.month

NoWrite == [path |-> GridPath(""), recs |-> {}]

\* if extract_grid: _extract_grid(ds_grid, ..., overwrite=False)
ExtractGrid ==
    /\ pc = "grid"
    /\ extract_grid
    /\ dirs' = dirs \cup {GridDir}
    /\ IF IsFile(fs, GridPath(prefix)) /\ ~GridOverwrite(overwrite)
       THEN /\ Goto(StartVar(1, vars, ds))
            /\ gridDone' = TRUE
            /\ UNCHANGED <<fs, cur, written>>
       ELSE /\ fs' = Put(fs, GridPath(prefix), Content({}, run, FALSE))
            /\ cur' = [path |-> GridPath(prefix), recs |-> {}]
            /\ written' = written \cup {GridPath(prefix)}
            /\ pc' = "gridW"
            /\ UNCHANGED <<vi, t, month, gridDone>>
    /\ UNCHANGED <<args, run, pending, err, fs0, fsEnd1, end1, calls, aggIn, aggW>>

\* else: ds_grid = xr.open_dataset(path)
AttachGrid ==
    /\ pc = "grid"
    /\ ~extract_grid
    /\ IF IsFile(fs, GridPath(prefix)) /\ fs[GridPath(prefix)].complete
       THEN /\ Goto(StartVar(1, vars, ds))
            /\ gridDone' = TRUE
            /\ err' = err
       ELSE /\ pc' = "raised"
            /\ err' = "IOError"
            /\ UNCHANGED <<vi, t, month, gridDone>>
    /\ UNCHANGED <<args, fs, dirs, run, pending, cur, fs0, fsEnd1, end1,
                   written, calls, aggIn, aggW>>

\* the end of ds_grid_subset.to_netcdf(path)
GridWriteEnd ==
    /\ pc = "gridW"
    /\ fs' = Put(fs, cur.path, Content(cur.recs, run, TRUE))
    /\ cur' = NoWrite
    /\ Goto(StartVar(1, vars, ds))
    /\ gridDone' = TRUE
    /\ UNCHANGED <<args, dirs, run, pending, err, fs0, fsEnd1, end1,
                   written, calls, aggIn, aggW>>

\* _extract_var(ds, var, ..., overwrite=False, time=t)
ExtractVar ==
    /\ pc = "var"
    /\ calls' = calls \cup {<<vi, t>>}
    /\ IF vars[vi] \notin DataVars
       THEN /\ pc' = "raised"
            /\ err' = "KeyError"
            /\ UNCHANGED <<fs, dirs, cur, written, vi, t, month>>
       ELSE LET path == StepPath(prefix, vars[vi], ds[t])
            IN  /\ dirs' = dirs \cup {VarDir(vars[vi])}
                /\ err' = err
                /\ IF IsFile(fs, path) /\ ~VarOverwrite(overwrite)
                   THEN /\ Goto(AfterStep(vi, t))
                        /\ UNCHANGED <<fs, cur, written>>
                   ELSE /\ fs' = Put(fs, path, Content({}, run, FALSE))
                        /\ cur' = [path |-> path, recs |-> {ds[t]}]
                        /\ written' = written \cup {path}
                        /\ pc' = "varW"
                        /\ UNCHANGED <<vi, t, month>>
    /\ UNCHANGED <<args, run, pending, fs0, fsEnd1, end1, aggIn, aggW, gridDone>>

\* the end of ds_subset.to_netcdf(path)
VarWriteEnd ==
    /\ pc = "varW"
    /\ fs' = Put(fs, cur.path, Content(cur.recs, run, TRUE))
    /\ cur' = NoWrite
    /\ Goto(AfterStep(vi, t))
    /\ UNCHANGED <<args, dirs, run, pending, err, fs0, fsEnd1, end1,
                   written, calls, aggIn, aggW, gridDone>>

\* what opening the globbed files gives: IOError when there are none; an
\* unfinished file fails to open with an error of either kind
OpenOutcomes(f, files) ==
    IF files = {} THEN {"IOError"}
    ELSE IF \E q \in files : ~f[q].complete THEN {"IOError", "RuntimeError"}
    ELSE {"ok"}

\* one iteration of `for month in range(1, 13)` up to the call of _concatenate
AggMonth ==
    /\ pc = "agg"
    /\ LET files == Glob(fs, vars[vi], month)
           items == ConcatItems(Joined(fs, files), vars[vi], concatenate,
                                VarDir(vars[vi]), prefix)
       IN  \E outcome \in OpenOutcomes(fs, files) :
             IF outcome = "ok"
             THEN /\ aggIn' = aggIn \cup {[vi |-> vi, month |-> month, files |-> files]}
                  /\ pending' = items
                  /\ pc' = "aggItem"
                  /\ UNCHANGED <<vi, t, month, err>>
             ELSE IF outcome = "IOError"
             THEN /\ Goto(AfterMonth(vi, month))
                  /\ UNCHANGED <<aggIn, pending, err>>
             ELSE /\ pc' = "raised"
                  /\ err' = outcome
                  /\ UNCHANGED <<vi, t, month, aggIn, pending>>
    /\ UNCHANGED <<args, fs, dirs, run, cur, fs0, fsEnd1, end1, written,
                   calls, aggW, gridDone>>

\* where control is once the step at the head of pending is over
AfterItem == IF Len(pending) > 1 THEN Pos("aggItem", vi, t, month)
             ELSE AfterMonth(vi, month)

\* one step of _concatenate(ds_netcdf, var, mode=concatenate, ...,
\* overwrite=overwrite): mkdir, then raise, skip or start the write
AggItem ==
    /\ pc = "aggItem"
    /\ LET item == Head(pending)
       IN  /\ dirs' = dirs \cup item.mk
           /\ IF item.raise
              THEN /\ pc' = "raised"
                   /\ err' = "ValueError"
                   /\ UNCHANGED <<fs, cur, written, aggW, pending, vi, t, month>>
              ELSE IF IsFile(fs, item.path) /\ ~AggOverwrite(overwrite)
              THEN /\ pending' = Tail(pending)
                   /\ Goto(AfterItem)
                   /\ UNCHANGED <<fs, cur, written, aggW, err>>
              ELSE /\ fs' = Put(fs, item.path, Content({}, run, FALSE))
                   /\ cur' = [path |-> item.path, recs |-> item.recs]
                   /\ written' = written \cup {item.path}
                   /\ aggW' = aggW \cup {vi}
                   /\ pc' = "aggW"
                   /\ UNCHANGED <<pending, vi, t, month, err>>
    /\ UNCHANGED <<args, run, fs0, fsEnd1, end1, calls, aggIn, gridDone>>

\* the end of a to_netcdf of _concatenate
AggWriteEnd ==
    /\ pc = "aggW"
    /\ fs' = Put(fs, cur.path, Content(cur.recs, run, TRUE))
    /\ cur' = NoWrite
    /\ pending' = Tail(pending)
    /\ Goto(AfterItem)
    /\ UNCHANGED <<args, dirs, run, err, fs0, fsEnd1, end1, written, calls,
                   aggIn, aggW, gridDone>>

\* the caller runs mds_to_netcdf again with the same arguments
Rerun ==
    /\ pc \in {"done", "raised", "killed"}
    /\ run = 1
    /\ run' = 2
    /\ end1' = pc
    /\ fsEnd1' = fs
    /\ fs0' = fs
    /\ pc' = "grid"
    /\ vi' = 1
    /\ t' = 1
    /\ month' = 1
    /\ pending' = <<>>
    /\ cur' = NoWrite
    /\ err' = ""
    /\ written' = {}
    /\ calls' = {}
    /\ aggIn' = {}
    /\ aggW' = {}
    /\ gridDone' = FALSE
    /\ UNCHANGED <<args, fs, dirs>>

\* the process is killed between two steps, or in the middle of a write
Interrupt ==
    /\ pc \in {"grid", "gridW", "var", "varW", "agg", "aggItem", "aggW"}
    /\ run = 1
    /\ pc' = "killed"
    /\ UNCHANGED <<args, fs, dirs, run, vi, t, month, pending, cur, err, fs0,
                   fsEnd1, end1, written, calls, aggIn, aggW, gridDone>>

(***************************************************************************)
(* A direct call of _concatenate, as one step                              *)
(***************************************************************************)
OutDir == Dir("out", 0, 0)

CallConcatenate ==
    /\ pc = "call"
    /\ LET r == Concatenate(fs, dirs, Range(ds), vars[1], concatenate, OutDir,
                            prefix, overwrite, run)
       IN  /\ fs' = r.fs
           /\ dirs' = r.dirs
           /\ err' = r.err
           /\ written' = r.written
           /\ pc' = IF r.err = "" THEN "returned" ELSE "raised"
    /\ UNCHANGED <<args, run, vi, t, month, pending, cur, fs0, fsEnd1, end1,
                   calls, aggIn, aggW, gridDone>>

(***************************************************************************)
(* Initial states and specifications                                       *)
(***************************************************************************)
\* datasets: time coordinates in ascending order
Datasets(stamps, lo, hi) ==
    {s \in UNION {[1..n -> stamps] : n \in lo..hi} : Ascending(s)}

VarLists == UNION {[1..n -> VarNames] : n \in 1..MaxV}

File(path, recs) == [path |-> path, recs |-> recs]
FsOf(S) == [q \in {f.path : f \in S} |->
               Content((CHOOSE f \in S : f.path = q).recs, 0, TRUE)]

\* what an output root may hold before the first run: nothing; the grid; the
\* grid and first per-timestep file of an earlier run with this prefix; a
\* per-timestep file written with another prefix
Earlier(d, vs, p) ==
    {{},
     {File(GridPath(p), {})},
     {File(GridPath(p), {})}
        \cup (IF Len(d) > 0 THEN {File(StepPath(p, vs[1], d[1]), {d[1]})} ELSE {}),
     {File(StepPath(OtherPrefix, vs[1], Stamp(1948, 1, 1, 12, 0)),
           {Stamp(1948, 1, 1, 12, 0)})}}

Start(first) ==
    /\ pc = first
    /\ run = 1
    /\ vi = 1
    /\ t = 1
    /\ month = 1
    /\ pending = <<>>
    /\ cur = NoWrite
    /\ err = ""
    /\ fs0 = fs
    /\ fsEnd1 = fs
    /\ end1 = ""
    /\ written = {}
    /\ calls = {}
    /\ aggIn = {}
    /\ aggW = {}
    /\ gridDone = FALSE

Init ==
    /\ ds \in Datasets(PipeStamps, 0, MaxT)
    /\ vars \in VarLists
    /\ prefix \in Prefixes
    /\ concatenate \in {None} \cup Modes
    /\ overwrite \in BOOLEAN
    /\ extract_grid \in BOOLEAN
    /\ \E S \in Earlier(ds, vars, prefix) :
          /\ fs = FsOf(S)
          /\ dirs = {f.path.dir : f \in S}
    /\ Start("grid")

Next ==
    \/ ExtractGrid
    \/ AttachGrid
    \/ GridWriteEnd
    \/ ExtractVar
    \/ VarWriteEnd
    \/ AggMonth
    \/ AggItem
    \/ AggWriteEnd
    \/ Rerun

Spec == Init /\ [][Next]_allVars

\* the pipeline of one variable, killed at any step and run again
InitKill ==
    /\ ds \in Datasets(PipeStamps, 1, MaxT)
    /\ vars \in {<<v>> : v \in DataVars}
    /\ prefix = "llc"
    /\ concatenate \in {None, Mode("monthly", TRUE), Mode("daily", TRUE)}
    /\ overwrite \in BOOLEAN
    /\ extract_grid \in BOOLEAN
    /\ \E S \in SUBSET {File(GridPath(prefix), {})} :
          /\ fs = FsOf(S)
          /\ dirs = {f.path.dir : f \in S}
    /\ Start("grid")

NextKill == Next \/ Interrupt

SpecKill == InitKill /\ [][NextKill]_allVars

\* direct calls of the aggregator
InitAgg ==
    /\ ds \in Datasets(AggStamps, 1, MaxRecs)
    /\ vars = <<"Eta">>
    /\ prefix = "llc"
    /\ concatenate \in Modes
    /\ overwrite \in BOOLEAN
    /\ extract_grid = FALSE
    /\ LET first == ConcatItems(Range(ds), vars[1], Mode(concatenate.name, TRUE),
                                OutDir, prefix)[1]
       IN  \E S \in SUBSET (IF first.raise THEN {} ELSE {File(first.path, {})}) :
              /\ fs = FsOf(S)
              /\ dirs = {f.path.dir : f \in S}
    /\ Start("call")

NextAgg == CallConcatenate

SpecAgg == InitAgg /\ [][NextAgg]_allVars

(***************************************************************************)
(* Properties                                                              *)
(***************************************************************************)
AllPairs == (1..Len(vars)) \X (1..Len(ds))
StepFiles(f) == {q \in DOMAIN f : q.name.kind = "step"}
AggFiles(f) == {q \in DOMAIN f : q.name.kind \in {"yearly", "monthly", "daily"}}
Ended == pc \in {"done", "raised"}

\* C1: a second run with the same arguments and overwrite=false, after a
\* first run that ended by itself, writes nothing and leaves every file as
\* the first run left it.
C1_Idempotent ==
    (run = 2 /\ ~overwrite /\ end1 \in {"done", "raised"})
        => written = {} /\ fs = fsEnd1

\* a second run has ended after a first run that wrote per-timestep and
\* aggregated files for two variables
C1_Witness ==
    /\ run = 2
    /\ pc = "done"
    /\ ~overwrite
    /\ Len(vars) = 2
    /\ Len(ds) = 2
    /\ \E q \in StepFiles(fs) : fs[q].by = 1
    /\ \E q \in AggFiles(fs) : fs[q].by = 1
    /\ Cardinality(calls) = 4

\* C2: from an empty output root, a run that extracts the grid and then V
\* distinct variables of the dataset invokes the extractor once per
\* (variable, time index) and leaves T x V distinct per-timestep files.
C2_Completeness ==
    (run = 1 /\ Ended /\ extract_grid /\ DOMAIN fs0 = {}
        /\ Range(vars) \subseteq DataVars /\ Cardinality(Range(vars)) = Len(vars))
        => /\ calls = AllPairs
           /\ Cardinality(StepFiles(fs)) = Len(ds) * Len(vars)

\* the file named by a record's own key, for a direct call of the aggregator
KeyPath(r, mode) ==
    IF mode.name = "yearly" THEN YearlyPath(OutDir, prefix, vars[1], r.y)
    ELSE IF mode.name = "monthly" THEN MonthlyPath(OutDir, prefix, vars[1], r.y, r.m)
    ELSE DailyPath(OutDir, prefix, vars[1], r.y, r.m, r.d)

Partitioned ==
    \A r \in Range(ds) :
        {q \in DOMAIN fs : r \in fs[q].recs} = {KeyPath(r, concatenate)}

\* C3: a call of the aggregator in yearly, monthly or daily mode, with no
\* target file present, writes every record to exactly one file, the one
\* named by the record's year, (year, month) or (year, month, day).
C3_Partition ==
    (pc \in {"returned", "raised"} /\ concatenate.name \in ModeNames
        /\ DOMAIN fs0 = {})
        => Partitioned

\* C3 where the mode is the very string object of the literal: the
\* partition holds.
C3_PartitionSameObject ==
    (pc \in {"returned", "raised"} /\ concatenate.name \in ModeNames
        /\ concatenate.same /\ DOMAIN fs0 = {})
        => pc = "returned" /\ Partitioned

\* C4: a call of the aggregator with a mode outside yearly, monthly, daily
\* raises ValueError and leaves every file as it was, creating none.
C4_InvalidMode ==
    (pc \in {"returned", "raised"} /\ concatenate.name \notin ModeNames)
        => pc = "raised" /\ err = "ValueError" /\ fs = fs0 /\ written = {}

\* a call with mode "weekly" on records of two years has raised
C4_Witness ==
    /\ pc = "raised"
    /\ concatenate.name = "weekly"
    /\ Cardinality({r.y : r \in Range(ds)}) = 2

\* C5: in the state an interrupted run leaves, and in the run after it,
\* every file at a target path holds its fully written content.
C5_CrashSafe ==
    (pc = "killed" \/ run = 2) => \A q \in DOMAIN fs : fs[q].complete

\* C6: a run that completes with concatenate yearly, monthly or daily has
\* invoked the aggregator for every variable and every month that has a
\* per-timestep file of that variable.
C6_Dispatch ==
    (pc = "done" /\ concatenate.name \in ModeNames)
        => \A i \in 1..Len(vars) : \A mm \in 1..LastMonth :
              (\E j \in 1..Len(ds) : ds[j].m = mm
                      /\ StepPath(prefix, vars[i], ds[j]) \in DOMAIN fs)
                  => \E a \in aggIn : a.vi = i /\ a.month = mm

\* C6 for monthly and daily alone: the dispatch holds.
C6_DispatchMonthlyDaily ==
    (pc = "done" /\ Dispatched(concatenate))
        => \A i \in 1..Len(vars) : \A mm \in 1..LastMonth :
              (\E j \in 1..Len(ds) : ds[j].m = mm
                      /\ StepPath(prefix, vars[i], ds[j]) \in DOMAIN fs)
                  => \E a \in aggIn : a.vi = i /\ a.month = mm

\* C7: when the extraction or aggregation of one variable fails, the
\* extractor has still been invoked for every time index of every other
\* requested variable.
C7_Isolation ==
    (pc = "raised" /\ err \in {"KeyError", "ValueError"})
        => \A i \in 1..Len(vars) :
              vars[i] # vars[vi] => \A j \in 1..Len(ds) : <<i, j>> \in calls

\* the extractor calls made so far are an initial part of the order
\* (variable 1, times ascending), (variable 2, times ascending), ...
InRequestOrder ==
    \A c \in calls : \A b \in AllPairs :
        (b[1] < c[1] \/ (b[1] = c[1] /\ b[2] < c[2])) => b \in calls

\* C8 as stated: grid first, extraction in request order, and aggregated
\* files written only after every requested variable has been extracted.
C8_Order ==
    /\ calls # {} => gridDone
    /\ InRequestOrder
    /\ aggW # {} => calls = AllPairs

\* C8 amended: grid first, extraction in request order, and the aggregated
\* files of variable k written only after variables 1..k have been extracted
\* at every time index and before any extraction of variable k+1.
C8_OrderPerVariable ==
    /\ calls # {} => gridDone
    /\ InRequestOrder
    /\ \A k \in aggW : \A b \in AllPairs : b[1] <= k => b \in calls
    /\ pc \in {"aggItem", "aggW"} => \A c \in calls : c[1] <= vi

\* a run of two variables and two timesteps has ended with aggregated files
\* written for both variables
C8_Witness ==
    /\ pc = "done"
    /\ gridDone
    /\ Len(vars) = 2
    /\ Len(ds) = 2
    /\ aggW = {1, 2}
    /\ calls = AllPairs

\* C9: the files joined for variable v and month m are exactly the
\* per-timestep files this run targeted for (prefix, v) with month m.
C9_AggInput ==
    \A a \in aggIn :
        a.files = {StepPath(prefix, vars[a.vi], ds[j]) :
                      j \in {k \in 1..Len(ds) : ds[k].m = a.month}}

\* C10: for either value of overwrite, a grid or per-timestep file present
\* when the run starts is unchanged, and a file present at the start is
\* rewritten only if it is an aggregated file and overwrite is true.
C10_Frame ==
    /\ \A q \in DOMAIN fs0 :
          q.name.kind \in {"grid", "step"} => q \in DOMAIN fs /\ fs[q] = fs0[q]
    /\ \A q \in written \cap DOMAIN fs0 :
          q.name.kind \in {"monthly", "daily"} /\ overwrite

\* a run with overwrite=true has ended having rewritten an aggregated file
\* and having targeted a per-timestep file and a grid file that existed
C10_Witness ==
    /\ pc = "done"
    /\ overwrite
    /\ extract_grid
    /\ GridPath(prefix) \in DOMAIN fs0
    /\ \E c \in calls : StepPath(prefix, vars[c[1]], ds[c[2]]) \in DOMAIN fs0
    /\ \E q \in written \cap DOMAIN fs0 : q.name.kind \in {"monthly", "daily"}

====
